---- MODULE Spec2Model ----
(***************************************************************************)
(* Model of the AI orchestration layer of AsisTechAI:                      *)
(*   - app/services/ai_assistant_service.py  (AIAssistantService)          *)
(*   - app/services/ai_strategies.py         (strategies)                  *)
(*   - app/services/openai_client.py         (OpenAIClient + tenacity)     *)
(*   - app/repositories/*.py, app/models/conversation.py                   *)
(*                                                                         *)
(* The persisted state is the two tables `conversations` and `messages`.   *)
(* Every orchestration call runs in its own SQLAlchemy session `sess[s]`:  *)
(* what the call stages lives in the session until commit or rollback.     *)
(* A call is split where the external provider answers: Begin (everything  *)
(* up to the first provider request), ProviderAttempt (one provider        *)
(* request/response, with the retry decision) and Finish (everything after *)
(* the strategy returned, up to return or raise).                          *)
(***************************************************************************)
EXTENDS Integers, Sequences, FiniteSets, TLC

\* ------------------------------------------------------------------ bounds
NumSessions == 2
NumUsers == 2
MaxConvs == 2
MaxMessages == 4
MaxBound == 3
AttemptCap == 5

Sessions == 1..NumSessions
Users == 1..NumUsers
ConvIds == 1..MaxConvs

\* ------------------------------------------------------- program constants
MAX_CONVERSATION_HISTORY == 50
SEARCH_CONTEXT_LIMIT == 10
STOP_AFTER_ATTEMPT == 3

None == 0
NewConversationTitle == <<"N","e","w"," ","C","o","n","v","e","r","s","a","t","i","o","n">>
WebSearchPrefix == <<"[","W","e","b"," ","S","e","a","r","c","h","]"," ">>
ImageAnalysisPrefix == <<"[","I","m","a","g","e"," ","A","n","a","l","y","s","i","s","]"," ">>
SearchTheWebFor == <<"S","e","a","r","c","h"," ","t","h","e"," ","w","e","b"," ","f","o","r",":"," ">>
TechSupportSystem == <<"AsisTech AI preamble">>
DefaultSearchModel == "gpt-4o-mini"
OPENAI_MODEL == "gpt-4o-mini"
VisionModel == "gpt-4o-mini"

\* inputs of the calls
Contents == { <<"h","i">>, <<"p","c">> }
ImageUrls == { <<"u">> }
NoImage == <<>>
ModelArgs == { "None", "gpt-4o" }
Ops == { "chat", "web_search", "analyze_image" }
ProviderOutcomes == { "ok", "RateLimitError", "APIConnectionError", "APIError", "Exception" }
ReplyContent == <<"r">>

VARIABLES
    conversations,  \* table conversations: id -> row
    messages,       \* table messages: set of rows
    sess,           \* SQLAlchemy session + call frame of every in-flight call
    autoflush,      \* sessionmaker(autoflush=...) of app/database.py
    settings,       \* feature flags of app/core/config.py
    strategies,     \* AIStrategyFactory._strategies: name -> class
    factory,        \* outcome of the latest AIStrategyFactory.create call
    execution       \* the latest execute() call made on a strategy directly

vars == <<conversations, messages, sess, autoflush, settings, strategies, factory, execution>>

\* --------------------------------------------------------------- the tables
\* models/conversation.py: Conversation columns the orchestration touches
NoRow == [present |-> FALSE, user_id |-> 0, title |-> <<>>, status |-> "none",
          message_count |-> 0]

\* Conversation(user_id=..., title="New Conversation", status=ACTIVE)
Conversation(user_id) ==
    [present |-> TRUE, user_id |-> user_id, title |-> NewConversationTitle,
     status |-> "active", message_count |-> 0]

\* Conversation.increment_message_count
\* faulty variant: the turn is counted twice
increment_message_count_twice(c) == [c EXCEPT !.message_count = @ + 2]

increment_message_count(c) == [c EXCEPT !.message_count = @ + 1]

\* Conversation.archive
archive(c) == [c EXCEPT !.status = "archived"]

\* Conversation.delete
delete(c) == [c EXCEPT !.status = "deleted"]

\* Message(conversation_id=, role=, content=), created_at set on INSERT
Message(conversation_id, role, content, created_at) ==
    [conversation_id |-> conversation_id, role |-> role, content |-> content,
     created_at |-> created_at]

\* Message.to_openai_format
to_openai_format(msg) == [role |-> msg.role, content |-> msg.content]

\* ------------------------------------------------------------- repositories
Min(a, b) == IF a <= b THEN a ELSE b

\* the row of S with the greatest created_at
Newest(S) == CHOOSE m \in S : \A o \in S : o.created_at <= m.created_at

\* .order_by(desc(Message.created_at))
RECURSIVE order_by_desc_created_at(_)
order_by_desc_created_at(S) ==
    IF S = {} THEN <<>>
    ELSE <<Newest(S)>> \o order_by_desc_created_at(S \ {Newest(S)})

\* .limit(n)
limit_rows(seq, n) == SubSeq(seq, 1, Min(n, Len(seq)))

\* list(reversed(messages))
reversed(seq) == [i \in 1..Len(seq) |-> seq[Len(seq) + 1 - i]]

\* MessageRepository.get_latest_messages, evaluated over the rows `rows`
\* that the querying session can see
\* faulty variant: the final reversal is left out
get_latest_messages_unreversed(rows, conversation_id, limit) ==
    limit_rows(order_by_desc_created_at(
        {m \in rows : m.conversation_id = conversation_id}), limit)

get_latest_messages(rows, conversation_id, limit) ==
    reversed(limit_rows(order_by_desc_created_at(
        {m \in rows : m.conversation_id = conversation_id}), limit))

\* MessageRepository.get_conversation_context
get_conversation_context(rows, conversation_id, max_messages) ==
    LET msgs == get_latest_messages(rows, conversation_id, max_messages)
    IN  [i \in 1..Len(msgs) |-> to_openai_format(msgs[i])]

\* ConversationRepository.get_by_user_and_id: the id when a row with that id
\* and that owner exists, None otherwise
\* faulty variant: the owner is not part of the filter
get_by_user_and_id_any_owner(convs, user_id, conversation_id) ==
    IF /\ conversation_id \in ConvIds
       /\ convs[conversation_id].present
    THEN conversation_id ELSE None

get_by_user_and_id(convs, user_id, conversation_id) ==
    IF /\ conversation_id \in ConvIds
       /\ convs[conversation_id].present
       /\ convs[conversation_id].user_id = user_id
    THEN conversation_id ELSE None

\* ------------------------------------------------ exceptions (class graph)
\* openai.RateLimitError < APIStatusError < APIError; APIConnectionError <
\* APIError; the client's own classes derive from OpenAIClientError;
\* tenacity.RetryError derives from Exception only.
Bases(e) ==
    CASE e = "RateLimitError" -> {"RateLimitError", "APIError", "Exception"}
      [] e = "APIConnectionError" -> {"APIConnectionError", "APIError", "Exception"}
      [] e = "APIError" -> {"APIError", "Exception"}
      [] e = "OpenAIRateLimitError" -> {"OpenAIRateLimitError", "OpenAIClientError", "Exception"}
      [] e = "OpenAIConnectionError" -> {"OpenAIConnectionError", "OpenAIClientError", "Exception"}
      [] e = "OpenAIClientError" -> {"OpenAIClientError", "Exception"}
      [] e = "RetryError" -> {"RetryError", "Exception"}
      [] e = "ValueError" -> {"ValueError", "Exception"}
      [] OTHER -> {"Exception"}

isinstance(e, classes) == Bases(e) \cap classes # {}

\* ------------------------------------------------------------ OpenAIClient
\* @retry(retry=retry_if_exception_type((RateLimitError, APIConnectionError)),
\*        stop=stop_after_attempt(3), ...): what tenacity does with the
\* exception `exc` that attempt number `attempt_number` of the decorated
\* function raised: call again, give up with RetryError, or let it through.
\* faulty variants: retry on anything and without a stop; retry on the
\* client's own exception classes
retry_decision_any_exception_no_stop(exc, attempt_number) == "retry"

retry_decision_on_client_errors(exc, attempt_number) ==
    IF isinstance(exc, {"OpenAIClientError"})
    THEN IF attempt_number >= STOP_AFTER_ATTEMPT THEN "retry_error" ELSE "retry"
    ELSE "reraise"

retry_decision(exc, attempt_number) ==
    IF isinstance(exc, {"RateLimitError", "APIConnectionError"})
    THEN IF attempt_number >= STOP_AFTER_ATTEMPT THEN "retry_error" ELSE "retry"
    ELSE "reraise"

\* OpenAIClient.chat, except clauses: the exception the body raises when the
\* provider request raised `e`
\* faulty variant: there is no `except Exception` clause
chat_raises_without_catch_all(e) ==
    IF isinstance(e, {"RateLimitError"}) THEN "OpenAIRateLimitError"
    ELSE IF isinstance(e, {"APIConnectionError"}) THEN "OpenAIConnectionError"
    ELSE IF isinstance(e, {"APIError"}) THEN "OpenAIClientError"
    ELSE e

chat_raises(e) ==
    IF isinstance(e, {"RateLimitError"}) THEN "OpenAIRateLimitError"
    ELSE IF isinstance(e, {"APIConnectionError"}) THEN "OpenAIConnectionError"
    ELSE "OpenAIClientError"

\* OpenAIClient.analyze_image, except clause
analyze_image_raises(e) == "OpenAIClientError"

\* OpenAIClient.chat_with_web_search, `except Exception`: TRUE when the body
\* handles the failure `e` of the search request by calling self.chat
web_search_falls_back(e) == isinstance(e, {"Exception"})

\* model=model or self.default_model
chat_model(model) == IF model = "None" THEN OPENAI_MODEL ELSE model

\* search_model = model or "gpt-4o-mini"
search_model(model) == IF model = "None" THEN DefaultSearchModel ELSE model

\* --------------------------------------------------------- SQLAlchemy session
EmptyTables == [conversations |-> [c \in ConvIds |-> NoRow], messages |-> {}]

IdleClient ==
    [fn |-> "none", messages |-> <<>>, model |-> "None", attempt_number |-> 0,
     in_fallback |-> FALSE, chat_attempt_number |-> 0, status |-> "idle",
     exc |-> "none"]

IdleSession ==
    [pc |-> "idle", op |-> "none", user_id |-> 0, conversation_id |-> None,
     created |-> FALSE, conv |-> NoRow, title_dirty |-> FALSE,
     pending |-> <<>>, flushed |-> {}, content |-> <<>>, image_url |-> <<>>,
     client |-> IdleClient, calls |-> <<>>, snap |-> EmptyTables,
     result |-> "none", error |-> "none"]

Tables == [conversations |-> conversations, messages |-> messages]

\* created_at of the newest row any transaction has inserted so far
MaxCreatedAt ==
    LET all == messages \cup UNION { sess[t].flushed : t \in Sessions }
    IN  IF all = {} THEN 0 ELSE Newest(all).created_at

\* identities that are neither persisted nor staged by an open transaction
FreeConvIds ==
    { c \in ConvIds :
        /\ ~ conversations[c].present
        /\ \A t \in Sessions : ~ (sess[t].pc = "calling" /\ sess[t].conversation_id = c) }

\* self.db.add(message)
db_add(d, role, content) ==
    [d EXCEPT !.pending = Append(@, [role |-> role, content |-> content])]

\* Session.flush: INSERT the pending rows, created_at in the order of add()
\* faulty variant: the rows are inserted in the reverse order of add()
db_flush_reverse_order(d, base) ==
    [d EXCEPT
       !.flushed = @ \cup { Message(d.conversation_id, d.pending[i].role,
                                    d.pending[i].content,
                                    base + Len(d.pending) + 1 - i)
                            : i \in 1..Len(d.pending) },
       !.pending = <<>>]

db_flush(d, base) ==
    [d EXCEPT
       !.flushed = @ \cup { Message(d.conversation_id, d.pending[i].role,
                                    d.pending[i].content, base + i)
                            : i \in 1..Len(d.pending) },
       !.pending = <<>>]

\* Session.commit: flush, then make the transaction's rows durable; the
\* conversation is INSERTed when the call created it, else the attributes
\* the call changed are UPDATEd
\* faulty variant: the counter is raised in the database by the number of
\* turns the transaction added, not overwritten with the value it computed
db_commit_atomic_increment(tables, d, base) ==
    [conversations |->
        [tables.conversations EXCEPT ![d.conversation_id] =
            IF d.created THEN d.conv
            ELSE [@ EXCEPT !.message_count =
                               @ + d.conv.message_count
                                 - d.snap.conversations[d.conversation_id].message_count,
                           !.title = IF d.title_dirty THEN d.conv.title ELSE @]],
     messages |-> tables.messages \cup db_flush(d, base).flushed]

db_commit(tables, d, base) ==
    [conversations |->
        [tables.conversations EXCEPT ![d.conversation_id] =
            IF d.created THEN d.conv
            ELSE [@ EXCEPT !.message_count = d.conv.message_count,
                           !.title = IF d.title_dirty THEN d.conv.title ELSE @]],
     messages |-> tables.messages \cup db_flush(d, base).flushed]

\* Session.rollback: nothing the transaction staged or flushed survives
\* faulty variant: the rows already flushed stay
db_rollback_keeps_flushed(tables, d) ==
    [tables EXCEPT !.messages = @ \cup d.flushed]

db_rollback(tables, d) == tables

\* ------------------------------------------------------------- strategies
\* ChatStrategy.execute: prepend the system message if not already there
\* faulty variant: the preamble is prepended whatever heads the context
chat_strategy_messages_always_prepends(msgs) ==
    <<[role |-> "system", content |-> TechSupportSystem]>> \o msgs

chat_strategy_messages(msgs) ==
    IF msgs = <<>> \/ msgs[1].role # "system"
    THEN <<[role |-> "system", content |-> TechSupportSystem]>> \o msgs
    ELSE msgs

\* WebSearchStrategy.execute: messages + [search query turn]
web_search_strategy_messages(msgs, query) ==
    msgs \o <<[role |-> "user", content |-> SearchTheWebFor \o query]>>

\* OpenAIClient.analyze_image: one multi-part user turn
analyze_image_messages(image_url, prompt) ==
    <<[role |-> "user", content |-> <<prompt, image_url>>]>>

\* the `except OpenAIClientError` of every strategy's execute: the outcome
\* record, or the exception that passes through execute
strategy_outcome(client) ==
    IF client.status = "returned"
    THEN [success |-> TRUE, propagated |-> FALSE, error |-> "none"]
    ELSE IF isinstance(client.exc, {"OpenAIClientError"})
    THEN [success |-> FALSE, propagated |-> FALSE, error |-> client.exc]
    ELSE [success |-> FALSE, propagated |-> TRUE, error |-> client.exc]

\* faulty variant: a message of exactly 50 characters is cut as well
generate_conversation_title_cuts_at_limit(first_message) ==
    LET title == SubSeq(first_message, 1, Min(50, Len(first_message)))
    IN  IF Len(first_message) >= 50 THEN title \o <<".", ".", ".">> ELSE title

\* AIAssistantService._generate_conversation_title
generate_conversation_title(first_message) ==
    LET title == SubSeq(first_message, 1, Min(50, Len(first_message)))
    IN  IF Len(first_message) > 50 THEN title \o <<".", ".", ".">> ELSE title

\* -------------------------------------------------------- AIStrategyFactory
\* the class-level registry as the module defines it
InitialStrategies ==
    [n \in {"chat", "web_search", "image_analysis", "code_assistant",
            "youtube_search", "device_diagnostic"} |->
        CASE n = "chat" -> "ChatStrategy"
          [] n = "web_search" -> "WebSearchStrategy"
          [] n = "image_analysis" -> "ImageAnalysisStrategy"
          [] n = "code_assistant" -> "CodeAssistantStrategy"
          [] n = "youtube_search" -> "YouTubeSearchStrategy"
          [] OTHER -> "DeviceDiagnosticStrategy"]

\* names and classes the factory is called with
CreateNames == DOMAIN InitialStrategies \cup {"custom", "unknown"}
RegisterNames == {"custom", "chat"}
RegisterClasses == {"ChatStrategy", "CodeAssistantStrategy", "CustomStrategy"}

NoCreate == [name |-> "none", status |-> "none", class |-> "None", exc |-> "none"]

\* cls._strategies.get(strategy_name)
strategies_get(registry, strategy_name) ==
    IF strategy_name \in DOMAIN registry THEN registry[strategy_name] ELSE "None"

\* faulty variant: an unknown name is reported as a client error
create_raises_client_error(registry, strategy_name) ==
    LET strategy_class == strategies_get(registry, strategy_name)
    IN  IF strategy_class = "None"
        THEN [name |-> strategy_name, status |-> "raised", class |-> "None",
              exc |-> "OpenAIClientError"]
        ELSE [name |-> strategy_name, status |-> "returned",
              class |-> strategy_class, exc |-> "none"]

\* AIStrategyFactory.create
create(registry, strategy_name) ==
    LET strategy_class == strategies_get(registry, strategy_name)
    IN  IF strategy_class = "None"
        THEN [name |-> strategy_name, status |-> "raised", class |-> "None",
              exc |-> "ValueError"]
        ELSE [name |-> strategy_name, status |-> "returned",
              class |-> strategy_class, exc |-> "none"]

\* faulty variant: the registry is rebuilt with the new entry only
register_strategy_drops_others(registry, name, strategy_class) ==
    [n \in {name} |-> strategy_class]

\* AIStrategyFactory.register_strategy: cls._strategies[name] = strategy_class
register_strategy(registry, name, strategy_class) ==
    [n \in DOMAIN registry \cup {name} |->
        IF n = name THEN strategy_class ELSE registry[n]]

\* ------------------------------------------------- strategy.execute records
\* temperatures are counted in tenths: 7 stands for 0.7
NoTemperature == 0 - 1
OPENAI_TEMPERATURE == 7

NoVideo == [key_set |-> FALSE, kind |-> "none", items |-> 0, bad |-> 0]

NoOutcome ==
    [status |-> "none", fields |-> {}, success |-> FALSE, error |-> "none",
     youtube_url |-> [kind |-> "none", q |-> <<>>], videos |-> 0]

NoExecution ==
    [strategy |-> "none", input |-> <<>>, temperature |-> NoTemperature,
     video |-> NoVideo, q |-> <<>>, client |-> IdleClient, calls |-> <<>>,
     outcome |-> NoOutcome]

\* ------------------------------------------------------------------- Init
Init ==
    /\ conversations = [c \in ConvIds |-> NoRow]
    /\ messages = {}
    /\ sess = [s \in Sessions |-> IdleSession]
    /\ autoflush \in BOOLEAN
    /\ settings \in [ENABLE_WEB_SEARCH : BOOLEAN, ENABLE_IMAGE_ANALYSIS : BOOLEAN]
    /\ strategies = InitialStrategies
    /\ factory = NoCreate
    /\ execution = NoExecution

\* ---------------------------------------------------- AIAssistantService
\* AIAssistantService._get_or_create_conversation; `fresh` is the identity
\* the flush assigns to a conversation it creates
get_or_create_conversation(d, user_id, conversation_id, fresh) ==
    LET found == IF conversation_id # None
                 THEN get_by_user_and_id(conversations, user_id, conversation_id)
                 ELSE None
    IN  IF found # None
        THEN [d EXCEPT !.conversation_id = found, !.created = FALSE,
                       !.conv = conversations[found]]
        ELSE [d EXCEPT !.conversation_id = fresh, !.created = TRUE,
                       !.conv = Conversation(user_id)]

\* faulty variant: the flags are not consulted
feature_enabled_unchecked(op) == TRUE

\* the feature-flag test ahead of the try block of web_search / analyze_image
feature_enabled(op) ==
    CASE op = "web_search" -> settings.ENABLE_WEB_SEARCH
      [] op = "analyze_image" -> settings.ENABLE_IMAGE_ANALYSIS
      [] OTHER -> TRUE

\* content of the user turn the operation stores
user_turn_content(op, content) ==
    CASE op = "web_search" -> WebSearchPrefix \o content
      [] op = "analyze_image" -> ImageAnalysisPrefix \o content
      [] OTHER -> content

\* the decorated function raised `exc` on attempt c.attempt_number: tenacity
\* calls it again or lets the call end with an exception
client_raise(c, exc) ==
    LET decision == retry_decision(exc, c.attempt_number)
    IN  IF decision = "retry"
        THEN [c EXCEPT !.attempt_number = @ + 1, !.in_fallback = FALSE,
                       !.chat_attempt_number = 0]
        ELSE [c EXCEPT !.status = "raised",
                       !.exc = IF decision = "retry_error" THEN "RetryError" ELSE exc]

\* the provider client call the operation's strategy starts, given the
\* session after the user turn was added
strategy_call(op, d, content, model, image_url) ==
    LET visible == messages \cup d.flushed
    IN  CASE op = "chat" ->
               [IdleClient EXCEPT
                  !.fn = "chat",
                  !.messages = chat_strategy_messages(
                      Append(get_conversation_context(visible, d.conversation_id,
                                                      MAX_CONVERSATION_HISTORY),
                             [role |-> "user", content |-> content])),
                  !.model = model, !.attempt_number = 1, !.status = "running"]
          [] op = "web_search" ->
               [IdleClient EXCEPT
                  !.fn = "chat_with_web_search",
                  !.messages = web_search_strategy_messages(
                      get_conversation_context(visible, d.conversation_id,
                                               SEARCH_CONTEXT_LIMIT), content),
                  !.model = search_model(model),
                  !.attempt_number = 1, !.status = "running"]
          [] OTHER ->
               LET c == [IdleClient EXCEPT
                           !.fn = "analyze_image",
                           !.messages = analyze_image_messages(image_url, content),
                           !.model = VisionModel, !.attempt_number = 1,
                           !.status = "running"]
               IN  IF image_url = NoImage
                   THEN client_raise([c EXCEPT !.messages = <<>>],
                                     analyze_image_raises("TypeError"))
                   ELSE c

\* chat / web_search / analyze_image from entry up to the strategy's first
\* provider request.  db_ok = FALSE: the flush or a query raised.
BeginCall(s, op, user_id, conversation_id, content, model, image_url, db_ok) ==
    LET d0 == [IdleSession EXCEPT !.op = op, !.user_id = user_id,
                                  !.content = content, !.image_url = image_url,
                                  !.snap = Tables]
        fresh == IF FreeConvIds = {} THEN None
                 ELSE CHOOSE c \in FreeConvIds : \A o \in FreeConvIds : c <= o
        d1 == get_or_create_conversation(d0, user_id, conversation_id, fresh)
        d2 == [db_add(d1, "user", user_turn_content(op, content))
                 EXCEPT !.conv = increment_message_count(d1.conv)]
        d3 == IF autoflush /\ op # "analyze_image" THEN db_flush(d2, MaxCreatedAt) ELSE d2
    IN  /\ sess[s].pc = "idle"
        /\ Cardinality(messages) + 2 <= MaxMessages
        /\ d1.conversation_id # None
        /\ sess' = [sess EXCEPT ![s] =
             IF ~ feature_enabled(op)
             THEN [d0 EXCEPT !.pc = "done", !.result = "raised", !.error = "disabled"]
             ELSE IF ~ db_ok
             THEN [d0 EXCEPT !.pc = "done", !.result = "raised", !.error = "failed"]
             ELSE [d3 EXCEPT !.pc = "calling",
                             !.client = strategy_call(op, d3, content, model, image_url)]]
        /\ UNCHANGED <<conversations, messages, autoflush, settings, strategies, factory, execution>>

\* the calls of one process-wide sequence of requests: one at a time
Begin(s) ==
    /\ \A t \in Sessions : sess[t].pc = "idle"
    /\ \E op \in Ops, user_id \in Users, conversation_id \in ConvIds \cup {None},
          content \in Contents, db_ok \in BOOLEAN :
         \E model \in IF op = "analyze_image" THEN {"None"} ELSE ModelArgs,
            image_url \in IF op = "analyze_image" THEN ImageUrls ELSE {<<>>} :
           BeginCall(s, op, user_id, conversation_id, content, model, image_url, db_ok)

\* ------------------------------------------------- OpenAIClient, one attempt
\* self.chat(messages, model, **kwargs) called from the except clause of
\* chat_with_web_search raised `exc` on its attempt c.chat_attempt_number
fallback_chat_raise(c, exc) ==
    LET decision == retry_decision(exc, c.chat_attempt_number)
    IN  IF decision = "retry"
        THEN [c EXCEPT !.chat_attempt_number = @ + 1]
        ELSE client_raise(c, IF decision = "retry_error" THEN "RetryError" ELSE exc)

\* the model argument self.chat receives from chat_with_web_search
\* faulty variant: the fallback drops the model argument
fallback_model_default(c) == "None"

fallback_model(c) == c.model

\* the request the client sends to the provider in its current position
provider_request(c) ==
    CASE c.fn = "chat" ->
           [api |-> "chat", messages |-> c.messages, model |-> chat_model(c.model)]
      [] c.fn = "analyze_image" ->
           [api |-> "vision", messages |-> c.messages, model |-> c.model]
      [] c.fn = "chat_with_web_search" /\ ~ c.in_fallback ->
           [api |-> "search", messages |-> c.messages, model |-> search_model(c.model)]
      [] OTHER ->
           [api |-> "chat", messages |-> c.messages,
            model |-> chat_model(fallback_model(c))]

\* the client after the provider answered its request with `r`
client_step(c, r) ==
    IF c.fn = "chat_with_web_search" /\ ~ c.in_fallback
    THEN IF r = "ok" THEN [c EXCEPT !.status = "returned"]
         ELSE IF web_search_falls_back(r)
         THEN [c EXCEPT !.in_fallback = TRUE, !.chat_attempt_number = 1]
         ELSE client_raise(c, r)
    ELSE IF r = "ok" THEN [c EXCEPT !.status = "returned"]
    ELSE IF c.fn = "chat_with_web_search" THEN fallback_chat_raise(c, chat_raises(r))
    ELSE IF c.fn = "chat" THEN client_raise(c, chat_raises(r))
    ELSE client_raise(c, analyze_image_raises(r))

\* one provider request of the running client call and its answer
ProviderAttempt(s) ==
    /\ sess[s].pc = "calling"
    /\ sess[s].client.status = "running"
    /\ Len(sess[s].calls) < AttemptCap
    /\ \E r \in ProviderOutcomes :
         sess' = [sess EXCEPT
            ![s].calls = Append(@, [request |-> provider_request(sess[s].client),
                                    outcome |-> r]),
            ![s].client = client_step(@, r)]
    /\ UNCHANGED <<conversations, messages, autoflush, settings, strategies, factory, execution>>

\* ------------------------------------- the call after the strategy returned
\* the session after the assistant turn was added and counted, and (chat
\* only) the title derived on the first exchange
\* faulty variant: the assistant turn is added but not counted
stage_assistant_turn_uncounted(d) == db_add(d, "assistant", ReplyContent)

\* faulty variant: the title is derived whenever it is still the default
stage_assistant_turn_titles_late(d) ==
    LET d1 == [db_add(d, "assistant", ReplyContent)
                 EXCEPT !.conv = increment_message_count(d.conv)]
    IN  IF d.op = "chat" /\ d1.conv.title = NewConversationTitle
        THEN [d1 EXCEPT !.conv.title = generate_conversation_title(d.content),
                        !.title_dirty = TRUE]
        ELSE d1

stage_assistant_turn(d) ==
    LET d1 == [db_add(d, "assistant", ReplyContent)
                 EXCEPT !.conv = increment_message_count(d.conv)]
    IN  IF /\ d.op = "chat"
           /\ d1.conv.message_count = 2
           /\ d1.conv.title = NewConversationTitle
        THEN [d1 EXCEPT !.conv.title = generate_conversation_title(d.content),
                        !.title_dirty = TRUE]
        ELSE d1

\* chat / web_search / analyze_image from the strategy's return to the end
\* of the call.  db_fail names the database step that raises, if any.
Finish(s) ==
    /\ sess[s].pc = "calling"
    /\ sess[s].client.status \in {"returned", "raised"}
    /\ \E db_fail \in {"none", "commit", "refresh"} :
         LET d == sess[s]
             outcome == strategy_outcome(d.client)
             staged == stage_assistant_turn(d)
             committed == db_commit(Tables, staged, MaxCreatedAt)
             rolled_back == db_rollback(Tables, d)
             after == IF outcome.success /\ db_fail # "commit"
                      THEN committed ELSE rolled_back
             closed == [staged EXCEPT !.pc = "done", !.pending = <<>>,
                                      !.flushed = {}]
         IN  /\ conversations' = after.conversations
             /\ messages' = after.messages
             /\ sess' = [sess EXCEPT ![s] =
                  IF ~ outcome.success
                  THEN [d EXCEPT !.pc = "done", !.pending = <<>>, !.flushed = {},
                                 !.result = "raised", !.error = "strategy"]
                  ELSE IF db_fail # "none"
                  THEN [closed EXCEPT !.result = "raised", !.error = db_fail]
                  ELSE [closed EXCEPT !.result = "returned"]]
    /\ UNCHANGED <<autoflush, settings, strategies, factory, execution>>

\* the request ends and its session is closed
Close(s) ==
    /\ sess[s].pc = "done"
    /\ sess' = [sess EXCEPT ![s] = IdleSession]
    /\ UNCHANGED <<conversations, messages, autoflush, settings, strategies, factory, execution>>

Next ==
    \E s \in Sessions :
        \/ Begin(s)
        \/ ProviderAttempt(s)
        \/ Finish(s)
        \/ Close(s)

Spec == Init /\ [][Next]_vars

\* every provider request returns or times out, and the call then goes on
FairSpec ==
    /\ Spec
    /\ \A s \in Sessions : WF_vars(ProviderAttempt(s)) /\ WF_vars(Finish(s))

\* ======================================================== checked properties
MessagesOf(rows, c) == { m \in rows : m.conversation_id = c }

Finished(s) == sess[s].pc = "done"

TransientFailures == { "RateLimitError", "APIConnectionError" }
PermanentFailures == { "APIError", "Exception" }
TypedFailures == { "RateLimitError", "APIConnectionError", "APIError" }

\* the provider requests the client call of session s has made so far
Calls(s) == sess[s].calls

\* C1: a chat call that returns leaves the returned conversation's persisted
\* message_count 2 above its value before the call (0 for a conversation the
\* call created) and has added exactly one user and one assistant turn, both
\* of the returned conversation.
C1_ChatAddsTwoTurns ==
    \A s \in Sessions :
        (Finished(s) /\ sess[s].op = "chat" /\ sess[s].result = "returned") =>
            LET cid == sess[s].conversation_id
                before == sess[s].snap
                before_count == IF before.conversations[cid].present
                                THEN before.conversations[cid].message_count ELSE 0
                added == messages \ before.messages
            IN  /\ conversations[cid].present
                /\ conversations[cid].message_count = before_count + 2
                /\ before.messages \subseteq messages
                /\ Cardinality(added) = 2
                /\ Cardinality({ m \in added : m.role = "user" }) = 1
                /\ Cardinality({ m \in added : m.role = "assistant" }) = 1
                /\ \A m \in added : m.conversation_id = cid

C1_Witness ==
    \E s \in Sessions :
        /\ Finished(s) /\ sess[s].op = "chat" /\ sess[s].result = "returned"
        /\ ~ sess[s].created
        /\ conversations[sess[s].conversation_id].message_count = 4

\* C2: when the strategy's outcome has success = false (or the strategy
\* raised), the call raises and the persisted tables are those before the
\* call: no user turn, no assistant turn, no count change, no new conversation.
C2_StrategyFailureRollsBack ==
    \A s \in Sessions :
        (Finished(s) /\ sess[s].client.status = "raised") =>
            /\ sess[s].result = "raised"
            /\ conversations = sess[s].snap.conversations
            /\ messages = sess[s].snap.messages

C2_Witness ==
    \E s \in Sessions :
        /\ Finished(s) /\ sess[s].client.status = "raised"
        /\ sess[s].op = "web_search" /\ autoflush /\ sess[s].created

\* C3: a call that raises, whatever step failed (the commit and the
\* refreshes after it included), has persisted nothing.
C3_FailedCallPersistsNothing ==
    \A s \in Sessions :
        (Finished(s) /\ sess[s].result = "raised") =>
            /\ conversations = sess[s].snap.conversations
            /\ messages = sess[s].snap.messages

\* C4: with calls executed one after the other, every persisted
\* conversation's message_count is the number of its persisted turns.
C4_MessageCountMatchesTurns ==
    \A c \in ConvIds :
        conversations[c].present =>
            conversations[c].message_count = Cardinality(MessagesOf(messages, c))

C4_Witness ==
    \E s \in Sessions, c \in ConvIds :
        /\ Finished(s) /\ sess[s].result = "raised" /\ sess[s].conversation_id = c
        /\ conversations[c].present /\ conversations[c].message_count >= 2

\* C5: OpenAIClient.chat retries a transient provider failure: a finished
\* call all of whose attempts failed transiently made 3 attempts, and the
\* orchestration call it belongs to persisted nothing.
C5_TransientFailureIsRetried ==
    \A s \in Sessions :
        ( /\ sess[s].client.fn = "chat"
          /\ sess[s].client.status = "raised"
          /\ \A i \in 1..Len(Calls(s)) : Calls(s)[i].outcome \in TransientFailures ) =>
            /\ Len(Calls(s)) = STOP_AFTER_ATTEMPT
            /\ Finished(s) => /\ conversations = sess[s].snap.conversations
                              /\ messages = sess[s].snap.messages

\* C6: a permanent provider failure of OpenAIClient.chat (called directly or
\* as the fallback of the search call) or of OpenAIClient.analyze_image is
\* never retried: the failed request is the call's last one, the only one of
\* chat / analyze_image, and the call raises an OpenAIClientError.
C6_PermanentFailureNotRetried ==
    \A s \in Sessions :
        \A i \in 1..Len(Calls(s)) :
            ( /\ Calls(s)[i].request.api \in {"chat", "vision"}
              /\ Calls(s)[i].outcome \in PermanentFailures ) =>
                /\ i = Len(Calls(s))
                /\ sess[s].client.status = "raised"
                /\ sess[s].client.exc = "OpenAIClientError"
                /\ Cardinality({ j \in 1..Len(Calls(s)) :
                                   Calls(s)[j].request.api = Calls(s)[i].request.api }) = 1

C6_Witness ==
    \E s \in Sessions :
        /\ sess[s].client.fn = "analyze_image"
        /\ sess[s].client.status = "raised"
        /\ Len(Calls(s)) = 1
        /\ Calls(s)[1].outcome = "APIError"

\* number of provider requests one invocation of OpenAIClient.chat has made
ChatAttempts(s) ==
    IF sess[s].client.fn = "chat" THEN Len(Calls(s))
    ELSE sess[s].client.chat_attempt_number

C8_UntypedSearchFailureFallsBackToChat ==
    \A s \in Sessions :
        ( /\ sess[s].client.fn = "chat_with_web_search"
          /\ Len(Calls(s)) >= 1
          /\ Calls(s)[1].outcome = "Exception" ) =>
            /\ Len(Calls(s)) = 1 =>
                 sess[s].client.status = "running" /\ sess[s].client.in_fallback
            /\ Len(Calls(s)) >= 2 =>
                 /\ Calls(s)[2].request.api = "chat"
                 /\ Calls(s)[2].request.messages = Calls(s)[1].request.messages
                 /\ Calls(s)[2].request.model = Calls(s)[1].request.model
                 /\ Len(Calls(s)) = 2
                 /\ Calls(s)[2].outcome = "ok" => sess[s].client.status = "returned"
                 /\ Calls(s)[2].outcome # "ok" =>
                      /\ sess[s].client.status = "raised"
                      /\ sess[s].client.exc = chat_raises(Calls(s)[2].outcome)

C8_Witness ==
    \E s \in Sessions :
        /\ sess[s].client.fn = "chat_with_web_search"
        /\ Len(Calls(s)) = 2
        /\ Calls(s)[1].outcome = "Exception"
        /\ Calls(s)[2].outcome = "ok"
        /\ Calls(s)[1].request.model = "gpt-4o"
        /\ sess[s].client.status = "returned"

\* C9: when the search request fails with a typed failure, no plain chat
\* request is made: a transient failure is followed by another search
\* request, a permanent one ends the call with an exception.
C9_TypedSearchFailureDoesNotFallBack ==
    \A s \in Sessions :
        ( /\ sess[s].client.fn = "chat_with_web_search"
          /\ Len(Calls(s)) >= 1
          /\ Calls(s)[1].outcome \in TypedFailures ) =>
            /\ ~ sess[s].client.in_fallback
            /\ \A i \in 1..Len(Calls(s)) : Calls(s)[i].request.api = "search"
            /\ Calls(s)[1].outcome \in PermanentFailures =>
                 sess[s].client.status = "raised"

\* C10: for a conversation with n persisted turns and a bound b >= 1 the
\* context has min(n, b) entries, and entry i is the turn of that
\* conversation that is number n - min(n, b) + i in creation order: the
\* most recent ones, oldest first.
C10_ContextIsLatestTurnsOldestFirst ==
    \A c \in ConvIds, b \in 1..MaxBound :
        LET rows == MessagesOf(messages, c)
            n == Cardinality(rows)
            k == Min(n, b)
            ctx == get_conversation_context(messages, c, b)
        IN  /\ Len(ctx) = k
            /\ \A i \in 1..k :
                 \E m \in rows :
                    /\ Cardinality({ o \in rows : o.created_at <= m.created_at })
                         = n - k + i
                    /\ ctx[i] = [role |-> m.role, content |-> m.content]

C10_Witness ==
    \E c \in ConvIds :
        /\ Cardinality(MessagesOf(messages, c)) = 4
        /\ Len(get_conversation_context(messages, c, 2)) = 2
        /\ get_conversation_context(messages, c, 2)[2].role = "assistant"

\* C11: a call of any of the three operations that is a conversation's
\* first exchange (message_count reaches 2, title still the default) leaves
\* the title derived from the first user message.
C11_FirstExchangeDerivesTitle ==
    \A s \in Sessions :
        ( /\ Finished(s) /\ sess[s].result = "returned"
          /\ conversations[sess[s].conversation_id].message_count = 2
          /\ sess[s].created ) =>
            conversations[sess[s].conversation_id].title \in
                { generate_conversation_title(sess[s].content),
                  generate_conversation_title(
                      user_turn_content(sess[s].op, sess[s].content)) }

\* C12: once a conversation's first exchange is persisted, no later call
\* changes its title.
C12_TitleAssignedAtMostOnce ==
    [][ \A c \in ConvIds :
          (conversations[c].present /\ conversations[c].message_count >= 2) =>
              conversations'[c].title = conversations[c].title ]_vars

C12_Witness ==
    \E s \in Sessions :
        /\ Finished(s) /\ sess[s].op = "chat" /\ sess[s].result = "returned"
        /\ conversations[sess[s].conversation_id].message_count = 4
        /\ conversations[sess[s].conversation_id].title = NewConversationTitle

\* ------------------------------------------------- title derivation inputs
\* lengths of the first messages tried, on both sides of the 50-character cut
TitleLengths == {1, 49, 50, 51, 53, 60}

Digits == <<"0", "1", "2", "3", "4", "5", "6", "7", "8", "9">>

\* a message of n characters
MessageOfLength(n) == [i \in 1..n |-> Digits[(i % 10) + 1]]

TitleInputs == { MessageOfLength(n) : n \in TitleLengths }

\* chat() opening a new conversation with a first message of a chosen length
TitleBegin(s) ==
    /\ \A t \in Sessions : sess[t].pc = "idle"
    /\ \E user_id \in Users, content \in TitleInputs :
         BeginCall(s, "chat", user_id, None, content, "None", <<>>, TRUE)

TitleNext ==
    \E s \in Sessions :
        \/ TitleBegin(s)
        \/ ProviderAttempt(s)
        \/ Finish(s)
        \/ Close(s)

TitleSpec == Init /\ [][TitleNext]_vars

\* C13: the derived title of a first message m is m itself when m has at
\* most 50 characters, else its first 50 characters followed by "...", and
\* is never longer than 53 characters.
C13_TitleIsMessageOrCutWithEllipsis ==
    \A s \in Sessions :
        ( /\ Finished(s) /\ sess[s].op = "chat" /\ sess[s].result = "returned"
          /\ sess[s].created ) =>
            LET m == sess[s].content
                title == conversations[sess[s].conversation_id].title
            IN  /\ Len(m) <= 50 => title = m
                /\ Len(m) > 50 => title = SubSeq(m, 1, 50) \o <<".", ".", ".">>
                /\ Len(title) <= 53

C13_Witness ==
    /\ \E s \in Sessions :
          /\ Finished(s) /\ sess[s].result = "returned" /\ sess[s].created
          /\ Len(sess[s].content) = 50
          /\ conversations[sess[s].conversation_id].title = sess[s].content
    /\ \E c \in ConvIds :
          /\ conversations[c].present
          /\ Len(conversations[c].title) = 53

\* C14: web_search with the web-search flag off, and analyze_image with the
\* image-analysis flag off, fail before a conversation is resolved or
\* created, before a turn is staged and before any strategy or provider
\* call; the persisted state is unchanged.
DisabledCall(s) ==
    /\ sess[s].pc # "idle"
    /\ \/ sess[s].op = "web_search" /\ ~ settings.ENABLE_WEB_SEARCH
       \/ sess[s].op = "analyze_image" /\ ~ settings.ENABLE_IMAGE_ANALYSIS

C14_DisabledFeatureFailsBeforeAnyWork ==
    \A s \in Sessions :
        DisabledCall(s) =>
            /\ sess[s].pc = "done" /\ sess[s].result = "raised"
            /\ sess[s].conversation_id = None /\ ~ sess[s].created
            /\ sess[s].conv = NoRow
            /\ sess[s].pending = <<>> /\ sess[s].flushed = {}
            /\ sess[s].client = IdleClient /\ sess[s].calls = <<>>
            /\ Tables = sess[s].snap

C14_Witness ==
    /\ \E s \in Sessions : DisabledCall(s) /\ sess[s].op = "web_search"
    /\ \E c \in ConvIds : conversations[c].present

\* -------------------------------------------------- the surfaced exception
\* the class of the exception the operation raises to its caller, by cause:
\* the flag test raises Exception("... is disabled"); the except clause of
\* the try block raises Exception(f"... failed: {e}") for everything else
surfaced_exception(error) ==
    CASE error = "disabled" -> "Exception"
      [] error \in {"failed", "strategy", "commit", "refresh"} -> "Exception"
      [] OTHER -> "none"

\* causes that are provider or strategy failures
StrategyFailureCauses == {"strategy"}

\* C15: a configuration failure (here a disabled feature) never surfaces to
\* the caller with the same error kind as a provider or strategy failure.
C15_ConfigurationKindDiffersFromProviderKind ==
    \A s \in Sessions :
        (Finished(s) /\ sess[s].result = "raised" /\ sess[s].error = "disabled") =>
            \A cause \in StrategyFailureCauses :
                surfaced_exception(sess[s].error) # surfaced_exception(cause)

\* ------------------------------------------------ the factory called directly
CreateStrategy(strategy_name) ==
    /\ factory' = create(strategies, strategy_name)
    /\ UNCHANGED <<conversations, messages, sess, autoflush, settings, strategies, execution>>

RegisterStrategy(name, strategy_class) ==
    /\ strategies' = register_strategy(strategies, name, strategy_class)
    /\ UNCHANGED <<conversations, messages, sess, autoflush, settings, factory, execution>>

FactoryNext ==
    \/ \E strategy_name \in CreateNames : CreateStrategy(strategy_name)
    \/ \E name \in RegisterNames, strategy_class \in RegisterClasses :
          RegisterStrategy(name, strategy_class)

FactorySpec == Init /\ [][FactoryNext]_vars

\* C16: create with a name that is not registered raises ValueError, which
\* is not an OpenAIClientError, and touches neither the tables nor any call;
\* with a registered name it returns an instance of the class registered
\* under that name.
C16_CreateRaisesValueErrorOrReturnsRegisteredClass ==
    [][ factory' # factory =>
          /\ factory'.name \notin DOMAIN strategies =>
                /\ factory'.status = "raised"
                /\ factory'.exc = "ValueError"
                /\ ~ isinstance(factory'.exc, {"OpenAIClientError"})
          /\ factory'.name \in DOMAIN strategies =>
                /\ factory'.status = "returned"
                /\ factory'.class = strategies[factory'.name]
          /\ UNCHANGED <<conversations, messages, sess>> ]_vars

C16_Witness ==
    /\ factory.name = "unknown" /\ factory.status = "raised"
    /\ "custom" \in DOMAIN strategies
    /\ strategies["chat"] # "ChatStrategy"

\* ------------------------------------------- archive / delete a conversation
\* ConversationRepository.archive_conversation, the table after its commit
archive_conversation(convs, conversation_id, user_id) ==
    LET conversation == get_by_user_and_id(convs, user_id, conversation_id)
    IN  IF conversation # None
        THEN [convs EXCEPT ![conversation] = archive(@)]
        ELSE convs

\* ConversationRepository.delete_conversation, the table after its commit
delete_conversation(convs, conversation_id, user_id) ==
    LET conversation == get_by_user_and_id(convs, user_id, conversation_id)
    IN  IF conversation # None
        THEN [convs EXCEPT ![conversation] = delete(@)]
        ELSE convs

\* one call of archive_conversation or delete_conversation: query, status
\* change and commit in one transaction.  db_ok = FALSE: the commit raised.
StatusCall(s, op, user_id, conversation_id, db_ok) ==
    LET found == get_by_user_and_id(conversations, user_id, conversation_id)
        after == IF op = "archive_conversation"
                 THEN archive_conversation(conversations, conversation_id, user_id)
                 ELSE delete_conversation(conversations, conversation_id, user_id)
    IN  /\ \A t \in Sessions : sess[t].pc = "idle"
        /\ conversations' = IF db_ok THEN after ELSE conversations
        /\ sess' = [sess EXCEPT ![s] =
             [IdleSession EXCEPT
                !.pc = "done", !.op = op, !.user_id = user_id,
                !.conversation_id = found, !.snap = Tables,
                !.result = IF db_ok \/ found = None THEN "returned" ELSE "raised",
                !.error = IF db_ok \/ found = None THEN "none" ELSE "commit"]]
        /\ UNCHANGED <<messages, autoflush, settings, strategies, factory, execution>>

ArchiveConversation(s) ==
    \E user_id \in Users, conversation_id \in ConvIds, db_ok \in BOOLEAN :
        StatusCall(s, "archive_conversation", user_id, conversation_id, db_ok)

DeleteConversation(s) ==
    \E user_id \in Users, conversation_id \in ConvIds, db_ok \in BOOLEAN :
        StatusCall(s, "delete_conversation", user_id, conversation_id, db_ok)

\* a chat, search or image call with one fixed text and the default model
LifecycleBegin(s) ==
    /\ \A t \in Sessions : sess[t].pc = "idle"
    /\ \E op \in Ops, user_id \in Users, conversation_id \in ConvIds \cup {None} :
         \E content \in {CHOOSE c \in Contents : TRUE}, image_url \in ImageUrls :
           BeginCall(s, op, user_id, conversation_id, content, "None",
                     IF op = "analyze_image" THEN image_url ELSE <<>>, TRUE)

LifecycleNext ==
    \E s \in Sessions :
        \/ LifecycleBegin(s)
        \/ ProviderAttempt(s)
        \/ Finish(s)
        \/ Close(s)
        \/ ArchiveConversation(s)
        \/ DeleteConversation(s)

LifecycleSpec == Init /\ [][LifecycleNext]_vars

\* C17: a conversation whose status is deleted keeps that status under every
\* chat, web_search, analyze_image, archive_conversation and
\* delete_conversation call.
C17_DeletedStaysDeleted ==
    [][ \A c \in ConvIds :
          conversations[c].status = "deleted" =>
              conversations'[c].status = "deleted" ]_vars

\* the user whose call takes the step that changes session s
ActingUser(s) == IF sess'[s].pc = "idle" THEN sess[s].user_id ELSE sess'[s].user_id

\* C18: no call made by user u changes the title, status or message_count
\* of a conversation owned by another user or adds a turn to it; a chat,
\* search or image call by u naming another user's conversation, an unknown
\* identity or none creates a new active conversation owned by u with the
\* default title, and the turns it commits go to that conversation.
C18_OtherUsersConversationsUntouched ==
    [][ /\ \A s \in Sessions, c \in ConvIds :
             ( /\ sess'[s] # sess[s]
               /\ conversations[c].present
               /\ conversations[c].user_id # ActingUser(s) ) =>
                   /\ conversations'[c] = conversations[c]
                   /\ MessagesOf(messages', c) = MessagesOf(messages, c)
        /\ \A u \in Users, requested \in ConvIds \cup {None} :
             ( \/ requested = None
               \/ ~ conversations[requested].present
               \/ conversations[requested].user_id # u ) =>
                   LET d == get_or_create_conversation(IdleSession, u, requested, None)
                   IN  /\ d.created
                       /\ d.conv.user_id = u /\ d.conv.status = "active"
                       /\ d.conv.title = NewConversationTitle
        /\ \A s \in Sessions :
             ( /\ sess[s].pc = "calling" /\ sess[s].created
               /\ sess'[s].pc = "done" /\ sess'[s].result = "returned" ) =>
                   /\ ~ conversations[sess[s].conversation_id].present
                   /\ conversations'[sess[s].conversation_id].user_id = sess[s].user_id
                   /\ conversations'[sess[s].conversation_id].status = "active"
                   /\ \A m \in messages' \ messages :
                         m.conversation_id = sess[s].conversation_id ]_vars

C18_Witness ==
    \E s \in Sessions, c \in ConvIds :
        /\ Finished(s) /\ sess[s].result = "returned" /\ sess[s].created
        /\ sess[s].conversation_id # c
        /\ conversations[c].present
        /\ conversations[c].user_id # sess[s].user_id
        /\ conversations[c].status = "deleted"

\* ------------------------------------------------ requests served in parallel
\* the two requests that overlap, each with its own get_db() session
ConcSessions == {1, 2}

\* latest created_at at which an overlapping call may still start
MaxClock == 6

\* a call that starts while another one may be in flight.  A conversation is
\* only created while nothing else runs; calls on an existing conversation
\* overlap freely.
ConcBegin(s) ==
    \E user_id \in Users, conversation_id \in ConvIds \cup {None} :
      \E content \in {CHOOSE c \in Contents : TRUE} :
        /\ BeginCall(s, "chat", user_id, conversation_id, content, "None", <<>>, TRUE)
        /\ sess'[s].created => \A t \in Sessions : sess[t].pc = "idle"
        /\ MaxCreatedAt + 2 <= MaxClock

ConcNext ==
    \E s \in ConcSessions :
        \/ ConcBegin(s)
        \/ ProviderAttempt(s)
        \/ Finish(s)
        \/ Close(s)

ConcSpec == Init /\ [][ConcNext]_vars

\* both calls ran on the same existing conversation, loaded the same
\* message_count and committed
BothCommitted(s, t) ==
    /\ s # t
    /\ Finished(s) /\ sess[s].result = "returned" /\ ~ sess[s].created
    /\ Finished(t) /\ sess[t].result = "returned" /\ ~ sess[t].created
    /\ sess[s].conversation_id = sess[t].conversation_id
    /\ sess[s].conv.message_count = sess[t].conv.message_count

\* C19: two calls that overlap on the same existing conversation, each in
\* its own session, can both commit and leave message_count below the
\* number of persisted turns of the conversation: whenever both loaded the
\* same count and both committed, one increment is lost.
C19_ConcurrentCallsLoseACountUpdate ==
    \A s \in ConcSessions, t \in ConcSessions :
        BothCommitted(s, t) =>
            conversations[sess[s].conversation_id].message_count <
                Cardinality(MessagesOf(messages, sess[s].conversation_id))

C19_Witness ==
    \E s \in ConcSessions, t \in ConcSessions :
        /\ BothCommitted(s, t)
        /\ conversations[sess[s].conversation_id].message_count = 4
        /\ Cardinality(MessagesOf(messages, sess[s].conversation_id)) = 6

\* ------------------------------------- analyze_image called without an image
\* AIAssistantService.analyze_image called directly, image_url given or None
ImageBegin(s) ==
    /\ \A t \in Sessions : sess[t].pc = "idle"
    /\ \E user_id \in Users, conversation_id \in ConvIds \cup {None},
          content \in Contents, image_url \in ImageUrls \cup {NoImage},
          db_ok \in BOOLEAN :
         BeginCall(s, "analyze_image", user_id, conversation_id, content, "None",
                   image_url, db_ok)

ImageNext ==
    \E s \in Sessions :
        \/ ImageBegin(s)
        \/ ProviderAttempt(s)
        \/ Finish(s)
        \/ Close(s)

ImageSpec == Init /\ [][ImageNext]_vars

\* C20: analyze_image called with no image reference fails at once, before a
\* conversation or a turn is staged and before any provider call, and
\* persists no turn.
C20_MissingImageFailsBeforeStaging ==
    \A s \in Sessions :
        ( /\ sess[s].pc # "idle" /\ sess[s].op = "analyze_image"
          /\ sess[s].image_url = NoImage
          /\ settings.ENABLE_IMAGE_ANALYSIS ) =>
            /\ sess[s].pc = "done" /\ sess[s].result = "raised"
            /\ sess[s].conversation_id = None /\ ~ sess[s].created
            /\ sess[s].pending = <<>> /\ sess[s].flushed = {}
            /\ sess[s].calls = <<>>
            /\ Tables = sess[s].snap

\* ------------------------------------------ strategies executed on their own
\* contexts handed to a strategy
InputContexts ==
    { <<>>,
      <<[role |-> "system", content |-> <<"c">>]>>,
      <<[role |-> "user", content |-> <<"c">>]>>,
      <<[role |-> "system", content |-> <<"c">>], [role |-> "user", content |-> <<"c">>]>>,
      <<[role |-> "user", content |-> <<"c">>], [role |-> "assistant", content |-> <<"c">>]>>,
      <<[role |-> "assistant", content |-> <<"c">>], [role |-> "system", content |-> <<"c">>]>> }

\* temperature=... as the caller passes it: none, 0.0, 1.0, 2.0
TemperatureArgs == {NoTemperature, 0, 10, 20}

\* OpenAIClient.chat: temperature=temperature or self.default_temperature
chat_temperature(temperature) ==
    IF temperature = NoTemperature \/ temperature = 0
    THEN OPENAI_TEMPERATURE ELSE temperature

\* the temperature that goes out with the client's current request
sent_temperature(c, temperature) ==
    CASE c.fn = "chat" -> chat_temperature(temperature)
      [] c.fn = "chat_with_web_search" /\ c.in_fallback -> chat_temperature(NoTemperature)
      [] OTHER -> NoTemperature

\* a client function as the strategy calls it
client_call(fn, msgs, model) ==
    [IdleClient EXCEPT !.fn = fn, !.messages = msgs, !.model = model,
                       !.attempt_number = 1, !.status = "running"]

\* keys of the dict each strategy returns in its try block
SuccessFields(name) ==
    CASE name = "chat" ->
           {"success", "content", "role", "model", "tokens_used", "finish_reason"}
      [] name = "web_search" ->
           {"success", "query", "content", "search_results", "model", "tokens_used"}
      [] name = "image_analysis" ->
           {"success", "analysis", "model", "tokens_used", "image_url"}
      [] name = "code_assistant" ->
           {"success", "content", "model", "tokens_used", "language"}
      [] name = "youtube_search" ->
           {"success", "content", "search_query", "youtube_url", "tokens_used"}
      [] OTHER ->
           {"success", "content", "device_type", "tokens_used"}

\* keys of the dict each strategy returns from `except OpenAIClientError`
FailureFields(name) ==
    CASE name = "web_search" -> {"success", "error", "query", "content"}
      [] name = "image_analysis" -> {"success", "error", "analysis"}
      [] OTHER -> {"success", "error", "content"}

\* what execute() of strategy `name` hands back once its client call ended
strategy_result(name, client) ==
    LET o == strategy_outcome(client)
    IN  IF o.propagated
        THEN [NoOutcome EXCEPT !.status = "raised", !.error = o.error]
        ELSE IF o.success
        THEN [NoOutcome EXCEPT !.status = "returned", !.success = TRUE,
                               !.fields = SuccessFields(name)]
        ELSE [NoOutcome EXCEPT !.status = "returned", !.error = o.error,
                               !.fields = FailureFields(name)]

\* ChatStrategy.execute up to its client call
ChatStrategy_execute(msgs, model, temperature) ==
    [NoExecution EXCEPT
       !.strategy = "chat", !.input = msgs, !.temperature = temperature,
       !.client = client_call("chat", chat_strategy_messages(msgs), model)]

\* WebSearchStrategy.execute up to its client call
WebSearchStrategy_execute(query, msgs, model) ==
    [NoExecution EXCEPT
       !.strategy = "web_search", !.input = msgs, !.q = query,
       !.client = client_call("chat_with_web_search",
                              web_search_strategy_messages(msgs, query),
                              search_model(model))]

\* ImageAnalysisStrategy.execute up to the client's provider request
ImageAnalysisStrategy_execute(image_url, prompt) ==
    LET c == client_call("analyze_image", analyze_image_messages(image_url, prompt),
                         VisionModel)
    IN  [NoExecution EXCEPT
           !.strategy = "image_analysis",
           !.client = IF image_url = NoImage
                      THEN client_raise([c EXCEPT !.messages = <<>>],
                                        analyze_image_raises("TypeError"))
                      ELSE c]

\* temperature=0.2 of CodeAssistantStrategy, in tenths
CodeTemperature == 2
CodeSystem == <<"expert programming assistant">>

\* CodeAssistantStrategy.execute up to its client call; code_context = <<>>
\* stands for None
CodeAssistantStrategy_execute(code_query, code_context, msgs) ==
    LET user_content == IF code_context # <<>>
                        THEN code_query \o <<"Code context:">> \o code_context
                        ELSE code_query
        sent == <<[role |-> "system", content |-> CodeSystem]>> \o msgs
                  \o <<[role |-> "user", content |-> user_content]>>
    IN  [NoExecution EXCEPT
           !.strategy = "code_assistant", !.input = msgs,
           !.temperature = CodeTemperature,
           !.client = client_call("chat", sent, "None")]

\* temperature=0.3 of DeviceDiagnosticStrategy, in tenths
DiagnosticTemperature == 3
DiagnosticSystem == <<"device diagnostics specialist">>

\* DeviceDiagnosticStrategy.execute up to its client call
DeviceDiagnosticStrategy_execute(device_type) ==
    LET sent == << [role |-> "system", content |-> DiagnosticSystem],
                   [role |-> "user",
                    content |-> <<"diagnostic steps for">> \o device_type] >>
    IN  [NoExecution EXCEPT
           !.strategy = "device_diagnostic",
           !.temperature = DiagnosticTemperature,
           !.client = client_call("chat", sent, "None")]

\* ------------------------------------------------ YouTubeSearchStrategy
\* items the video API may return (maxResults is 5 in the source)
MaxItems == 2

\* what the video API step meets: no key configured (no request), a request
\* that fails, a body without "items", or `items` entries of which entry
\* `bad` is the first that cannot be parsed (bad = 0: all can)
VideoApis ==
    {NoVideo}
    \cup { [key_set |-> TRUE, kind |-> k, items |-> 0, bad |-> 0] :
             k \in {"transport_error", "http_error", "malformed", "no_items"} }
    \cup UNION { { [key_set |-> TRUE, kind |-> "items", items |-> n, bad |-> b] :
                      b \in 0..n } : n \in 0..MaxItems }

\* the exception the video API step raises, "none" when it raises nothing
video_exception(v) ==
    CASE v.kind = "transport_error" -> "ConnectionError"
      [] v.kind = "http_error" -> "HTTPError"
      [] v.kind = "malformed" -> "JSONDecodeError"
      [] v.kind = "items" /\ v.bad > 0 -> "KeyError"
      [] OTHER -> "none"

\* faulty variant: only failures of the request itself are caught
video_api_handled_requests_only(e) == e \in {"ConnectionError", "HTTPError"}

\* `except Exception as api_error` around the video API step
video_api_handled(e) == isinstance(e, {"Exception"})

\* entries appended to `videos` when the step ends or is left by an exception
collected_videos(v) ==
    IF v.kind # "items" THEN 0
    ELSE IF v.bad = 0 THEN v.items ELSE v.bad - 1

\* temperature=0.5 of the recommendation request, in tenths
VideoTemperature == 5
VideoSystem == <<"tech support assistant">>

\* search_query: the problem, or "{device_info} {problem} fix tutorial"
search_query(problem_description, device_info) ==
    IF device_info # <<>>
    THEN device_info \o problem_description \o <<"fix tutorial">>
    ELSE problem_description

\* YouTubeSearchStrategy.execute up to its client call, or up to the
\* exception that leaves the video API step; device_info = <<>> stands for None
YouTubeSearchStrategy_execute(problem_description, device_info, v) ==
    LET e == video_exception(v)
        videos == collected_videos(v)
        sent == << [role |-> "system", content |-> VideoSystem],
                   [role |-> "user",
                    content |-> device_info \o problem_description
                                  \o [i \in 1..videos |-> "video"]] >>
        base == [NoExecution EXCEPT
                   !.strategy = "youtube_search", !.video = v,
                   !.q = search_query(problem_description, device_info)]
    IN  IF e # "none" /\ ~ video_api_handled(e)
        THEN [base EXCEPT !.client = [IdleClient EXCEPT !.fn = "none",
                                                       !.status = "raised",
                                                       !.exc = e]]
        ELSE [base EXCEPT
                !.temperature = IF videos > 0 THEN VideoTemperature
                                ELSE NoTemperature,
                !.client = client_call("chat", sent, "None")]

\* the dict execute() returns, or the exception it raises, once the client
\* call of execution x has ended
execute_result(x) ==
    LET result == strategy_result(x.strategy, x.client)
        videos == collected_videos(x.video)
    IN  IF x.strategy # "youtube_search" \/ ~ result.success THEN result
        ELSE IF videos > 0
        THEN [result EXCEPT !.fields = @ \cup {"videos"},
                            !.videos = videos,
                            !.youtube_url = [kind |-> "watch", q |-> <<"1">>]]
        ELSE [result EXCEPT !.youtube_url = [kind |-> "results", q |-> x.q]]

\* execution x with its outcome filled in as soon as its client call ended
settle(x) ==
    IF x.client.status = "running" THEN x
    ELSE [x EXCEPT !.outcome = execute_result(x)]

\* ---------------------------------------------------- the execute() actions
Queries == { <<"q">> }
DeviceInfos == { <<>>, <<"HP">> }

ExecuteChat ==
    /\ execution.client.status # "running"
    /\ \E msgs \in InputContexts, model \in ModelArgs,
          temperature \in TemperatureArgs :
         execution' = settle(ChatStrategy_execute(msgs, model, temperature))
    /\ UNCHANGED <<conversations, messages, sess, autoflush, settings, strategies,
                   factory>>

ExecuteWebSearch ==
    /\ execution.client.status # "running"
    /\ \E query \in Queries, msgs \in InputContexts, model \in ModelArgs :
         execution' = settle(WebSearchStrategy_execute(query, msgs, model))
    /\ UNCHANGED <<conversations, messages, sess, autoflush, settings, strategies,
                   factory>>

ExecuteImageAnalysis ==
    /\ execution.client.status # "running"
    /\ \E image_url \in ImageUrls \cup {NoImage}, prompt \in Queries :
         execution' = settle(ImageAnalysisStrategy_execute(image_url, prompt))
    /\ UNCHANGED <<conversations, messages, sess, autoflush, settings, strategies,
                   factory>>

ExecuteCodeAssistant ==
    /\ execution.client.status # "running"
    /\ \E code_query \in Queries, code_context \in {<<>>, <<"x = 1">>},
          msgs \in InputContexts :
         execution' = settle(CodeAssistantStrategy_execute(code_query, code_context,
                                                           msgs))
    /\ UNCHANGED <<conversations, messages, sess, autoflush, settings, strategies,
                   factory>>

ExecuteYouTubeSearch ==
    /\ execution.client.status # "running"
    /\ \E problem_description \in Queries, device_info \in DeviceInfos,
          v \in VideoApis :
         execution' = settle(YouTubeSearchStrategy_execute(problem_description,
                                                           device_info, v))
    /\ UNCHANGED <<conversations, messages, sess, autoflush, settings, strategies,
                   factory>>

ExecuteDeviceDiagnostic ==
    /\ execution.client.status # "running"
    /\ \E device_type \in Queries :
         execution' = settle(DeviceDiagnosticStrategy_execute(device_type))
    /\ UNCHANGED <<conversations, messages, sess, autoflush, settings, strategies,
                   factory>>

\* the provider answers the request the strategy's client call is waiting on
ProviderAnswer ==
    /\ execution.client.status = "running"
    /\ Len(execution.calls) < AttemptCap
    /\ \E r \in ProviderOutcomes :
         execution' = settle(
            [execution EXCEPT
               !.calls = Append(@, [request |-> provider_request(execution.client),
                                    temperature |-> sent_temperature(execution.client,
                                                       execution.temperature),
                                    outcome |-> r]),
               !.client = client_step(@, r)])
    /\ UNCHANGED <<conversations, messages, sess, autoflush, settings, strategies,
                   factory>>

StrategyNext ==
    \/ ExecuteChat
    \/ ExecuteWebSearch
    \/ ExecuteImageAnalysis
    \/ ExecuteCodeAssistant
    \/ ExecuteYouTubeSearch
    \/ ExecuteDeviceDiagnostic
    \/ ProviderAnswer

StrategySpec == Init /\ [][StrategyNext]_vars

\* C21: every outcome record a strategy returns carries a success flag and
\* a content or analysis string; with success = true it also carries a
\* model field, with success = false a non-empty error string.
C21_OutcomeRecordIsUniform ==
    execution.outcome.status = "returned" =>
        LET o == execution.outcome
        IN  /\ "success" \in o.fields
            /\ "content" \in o.fields \/ "analysis" \in o.fields
            /\ o.success => "model" \in o.fields
            /\ ~ o.success => ("error" \in o.fields /\ o.error # "none")

\* the video API step of the execution failed at some point
VideoFailed == 
    /\ execution.strategy = "youtube_search"
    /\ video_exception(execution.video) # "none"

\* C22: a failure of the video request (transport error, HTTP error status,
\* malformed response) never leaves YouTubeSearchStrategy.execute: the chat
\* call is still made and the outcome returned has a success flag decided by
\* the chat call alone.
C22_VideoFailureNeverPropagates ==
    VideoFailed =>
        /\ execution.client.fn = "chat"
        /\ execution.client.status # "running" =>
              /\ execution.outcome.status = "returned"
              /\ Len(execution.calls) >= 1
              /\ execution.outcome.success <=>
                    execution.calls[Len(execution.calls)].outcome = "ok"

C22_Witness ==
    /\ VideoFailed
    /\ execution.video.kind = "malformed"
    /\ execution.outcome.status = "returned"
    /\ execution.outcome.success

\* C23, as stated: register_strategy(n, C) makes create(n) return C and
\* leaves every name registered before the call, n included, mapped to the
\* class it had before the call.
C23_RegisterLeavesEveryNameUnchanged ==
    [][ strategies' # strategies =>
          /\ \E n \in RegisterNames, C \in RegisterClasses :
                 /\ strategies' = register_strategy(strategies, n, C)
                 /\ create(strategies', n).class = C
          /\ \A m \in DOMAIN strategies :
                 m \in DOMAIN strategies' /\ strategies'[m] = strategies[m] ]_vars

\* C23, amended: register_strategy(n, C) makes create(n) return C and leaves
\* every other name registered before the call mapped to the class it had;
\* every later create call in the process sees the one registry.
C23_RegisterLeavesOtherNamesUnchanged ==
    [][ /\ \A n \in RegisterNames, C \in RegisterClasses :
             LET after == register_strategy(strategies, n, C)
             IN  /\ create(after, n).status = "returned"
                 /\ create(after, n).class = C
                 /\ DOMAIN after = DOMAIN strategies \cup {n}
                 /\ \A m \in DOMAIN strategies \ {n} : after[m] = strategies[m]
        /\ strategies' # strategies =>
             \E n \in RegisterNames, C \in RegisterClasses :
                 strategies' = register_strategy(strategies, n, C)
        /\ factory' # factory => factory' = create(strategies, factory'.name) ]_vars

C23_Witness ==
    /\ "custom" \in DOMAIN strategies
    /\ factory.name = "custom" /\ factory.status = "returned"
    /\ factory.class = "CustomStrategy"
    /\ strategies["web_search"] = "WebSearchStrategy"

\* C24: the message sequence ChatStrategy sends always begins with a system
\* turn: the preamble followed by the unchanged input when the input is
\* empty or does not begin with a system turn, the unchanged input otherwise.
C24_ChatStrategySendsOneLeadingSystemTurn ==
    (execution.strategy = "chat" /\ execution.calls # <<>>) =>
        LET input == execution.input
            sent == execution.calls[1].request.messages
            preamble == [role |-> "system", content |-> TechSupportSystem]
        IN  /\ sent[1].role = "system"
            /\ (input = <<>> \/ input[1].role # "system") =>
                  /\ sent[1] = preamble
                  /\ Len(sent) = Len(input) + 1
                  /\ \A i \in 1..Len(input) : sent[i + 1] = input[i]
            /\ (input # <<>> /\ input[1].role = "system") => sent = input

C24_Witness ==
    /\ execution.strategy = "chat" /\ execution.calls # <<>>
    /\ Len(execution.input) = 2
    /\ execution.input[1].role = "system"
    /\ execution.calls[1].request.messages = execution.input
    /\ execution.outcome.status = "returned"

\* C25: when the video API step fails at any point, also while parsing a
\* later item, the outcome is the fallback outcome: youtube_url is the
\* search-results URL of the search query and no videos list is returned.
C25_VideoFailureGivesFallbackOutcome ==
    ( /\ VideoFailed
      /\ execution.outcome.status = "returned" /\ execution.outcome.success ) =>
        /\ execution.outcome.youtube_url = [kind |-> "results", q |-> execution.q]
        /\ "videos" \notin execution.outcome.fields
        /\ execution.outcome.videos = 0

\* the client call of the execution ended in a provider failure
ProviderFailed ==
    /\ execution.calls # <<>>
    /\ execution.client.status = "raised"
    /\ execution.calls[Len(execution.calls)].outcome # "ok"

C27_ContextHoldsOnlyPriorTurns ==
    \A s \in Sessions :
        (sess[s].op = "chat" /\ sess[s].client.fn = "chat") =>
            LET prior == get_conversation_context(sess[s].snap.messages,
                                                  sess[s].conversation_id,
                                                  MAX_CONVERSATION_HISTORY)
                handed == Append(prior, [role |-> "user", content |-> sess[s].content])
            IN  /\ sess[s].client.messages = chat_strategy_messages(handed)
                /\ Len(handed) <= MAX_CONVERSATION_HISTORY + 1

\* C28: a temperature the caller of chat supplies in 0.0 .. 2.0, 0.0
\* included, is the temperature sent to the provider; the configured default
\* is sent only when the caller supplies none.
C28_SuppliedTemperatureIsSent ==
    (execution.strategy = "chat" /\ execution.calls # <<>>) =>
        /\ execution.temperature # NoTemperature =>
              execution.calls[1].temperature = execution.temperature
        /\ execution.temperature = NoTemperature =>
              execution.calls[1].temperature = OPENAI_TEMPERATURE

\* the persisted turns of conversation c, oldest first
TurnsOf(c) == reversed(order_by_desc_created_at(MessagesOf(messages, c)))

\* C29: after any sequence of chat, web_search and analyze_image calls run
\* one after the other, the persisted turns of every conversation, in
\* creation order, alternate user, assistant starting with a user turn;
\* their number is even and none has the system role.
C29_TurnsAlternateUserAssistant ==
    \A c \in ConvIds :
        LET turns == TurnsOf(c)
        IN  /\ Len(turns) % 2 = 0
            /\ \A i \in 1..Len(turns) :
                  turns[i].role = IF i % 2 = 1 THEN "user" ELSE "assistant"

C29_Witness ==
    \E c \in ConvIds, s \in Sessions :
        /\ Len(TurnsOf(c)) = 4
        /\ Finished(s) /\ sess[s].result = "returned" /\ ~ sess[s].created
        /\ sess[s].conversation_id = c /\ sess[s].op # "chat"

\* ------------------------------------------ deleting a conversation's turns
\* MessageRepository.delete_messages_by_conversation, the table after its commit
delete_messages_by_conversation(rows, conversation_id) ==
    rows \ MessagesOf(rows, conversation_id)

\* one call of delete_messages_by_conversation: bulk DELETE and commit.
\* db_ok = FALSE: the commit raised.  The turns of a conversation are
\* deleted while its counter does not exceed MaxMessages.
DeleteMessages(s) ==
    /\ \A t \in Sessions : sess[t].pc = "idle"
    /\ \E conversation_id \in ConvIds, db_ok \in BOOLEAN :
         /\ conversations[conversation_id].present
         /\ MessagesOf(messages, conversation_id) # {}
         /\ conversations[conversation_id].message_count + 2 <= MaxMessages
         /\ messages' = IF db_ok
                        THEN delete_messages_by_conversation(messages, conversation_id)
                        ELSE messages
         /\ sess' = [sess EXCEPT ![s] =
              [IdleSession EXCEPT
                 !.pc = "done", !.op = "delete_messages_by_conversation",
                 !.conversation_id = conversation_id, !.snap = Tables,
                 !.result = IF db_ok THEN "returned" ELSE "raised",
                 !.error = IF db_ok THEN "none" ELSE "commit"]]
    /\ UNCHANGED <<conversations, autoflush, settings, strategies, factory, execution>>

\* a chat call with one fixed text and the default model
PurgeBegin(s) ==
    /\ \A t \in Sessions : sess[t].pc = "idle"
    /\ \E user_id \in Users, conversation_id \in ConvIds \cup {None} :
         \E content \in {CHOOSE c \in Contents : TRUE} :
           BeginCall(s, "chat", user_id, conversation_id, content, "None", <<>>, TRUE)

PurgeNext ==
    \E s \in Sessions :
        \/ PurgeBegin(s)
        \/ ProviderAttempt(s)
        \/ Finish(s)
        \/ Close(s)
        \/ DeleteMessages(s)

PurgeSpec == Init /\ [][PurgeNext]_vars

\* C30: message_count equals the number of persisted turns of the
\* conversation also after delete_messages_by_conversation and after every
\* call that completes on the conversation later.
C30_MessageCountSurvivesDeletingTurns ==
    \A c \in ConvIds :
        conversations[c].present =>
            conversations[c].message_count = Cardinality(MessagesOf(messages, c))

====
